---- MODULE Spec2Model ----
(***************************************************************************)
(* Text-to-SQL baseline harness: the run loop of app.main, the LLM client  *)
(* OpenAIChatLLM (llm.py), the dataset's schema formatter and the SQL      *)
(* extractor extract_sql_query (data_utils.py).                            *)
(*                                                                         *)
(* Text is modelled as a sequence of one-character strings, so that        *)
(* trimming, regular-expression substitution, joining and splitting are    *)
(* computed character by character as the Python code computes them.       *)
(***************************************************************************)
EXTENDS Integers, Sequences, FiniteSets, TLC

VARIABLES
    pc,                \* position of the program (of main, or of a function under test)
    cfg,               \* command line, config.json and environment read by main
    examples,          \* SpiderDataset._examples, as the sequence of their db_id
    client,            \* the OpenAIChatLLM built by main (its router), or None
    pos,               \* how many examples the for-loop of main has consumed
    call,              \* the generate call in progress / just returned
    pred_rows,         \* main's pred_rows
    error_log,         \* positions of the examples LOGGER.error was called for
    net_calls,         \* calls of client.chat.completions.create made so far
    fatal,             \* the exception that ended main, or None
    predictions_file,  \* content of predictions_path, or None while unwritten
    response,          \* extract_sql_query: its argument
    sql1,              \* extract_sql_query(response)
    sql2,              \* extract_sql_query(sql1)
    completion,        \* _extract_sql: its argument
    parse_result,      \* _extract_sql(completion): text or LLMError
    schemas,           \* SpiderDataset._schemas: db_id -> schema
    db_id,             \* get_schema: its argument
    schema_result      \* get_schema(db_id): text or KeyError

vars == <<pc, cfg, examples, client, pos, call, pred_rows, error_log, net_calls,
          fatal, predictions_file, response, sql1, sql2, completion, parse_result,
          schemas, db_id, schema_result>>

mainVars == <<schemas, cfg, examples, client, pos, call, pred_rows, error_log, net_calls,
              fatal, predictions_file>>
extractVars == <<response, sql1, sql2>>
parseVars == <<completion, parse_result>>
schemaVars == <<db_id, schema_result>>

None == "None"

-----------------------------------------------------------------------------
(* Bounds of the model. *)

MaxFrags == 3      \* fragments concatenated into one model response
MaxExamples == 2   \* examples in the dataset
MaxParts == 2      \* parts of a list-valued message content
MaxTables == 2     \* tables of a schema
MaxCols == 2       \* (table_idx, column_name) pairs of a schema
ScriptLen == 3     \* successive responses of the backend scripted for one call

-----------------------------------------------------------------------------
(* Text helpers: str.strip, str.join, and the pieces of the re module the  *)
(* patterns of extract_sql_query use.                                      *)

WS == {" ", "\n", "\t"}

IsWs(c) == c \in WS

UpperChars == <<"A", "B", "C", "D", "E", "F", "G", "H", "I", "J", "K", "L", "M",
                "N", "O", "P", "Q", "R", "S", "T", "U", "V", "W", "X", "Y", "Z">>
LowerChars == <<"a", "b", "c", "d", "e", "f", "g", "h", "i", "j", "k", "l", "m",
                "n", "o", "p", "q", "r", "s", "t", "u", "v", "w", "x", "y", "z">>

\* re.IGNORECASE compares characters after case folding
Lower(c) ==
    IF \E k \in 1..26 : UpperChars[k] = c
    THEN LowerChars[CHOOSE k \in 1..26 : UpperChars[k] = c]
    ELSE c

\* the literal lit matches s at position i (1-based); ci: ignoring case
MatchAt(s, i, lit, ci) ==
    /\ i >= 1
    /\ i + Len(lit) - 1 <= Len(s)
    /\ \A k \in 1..Len(lit) :
          IF ci THEN Lower(s[i + k - 1]) = Lower(lit[k]) ELSE s[i + k - 1] = lit[k]

\* \s* at position i: greedy, returns the position after the whitespace run
SkipWs(s, i) ==
    CHOOSE j \in i..(Len(s) + 1) :
        /\ \A k \in i..(j - 1) : IsWs(s[k])
        /\ (j = Len(s) + 1 \/ ~IsWs(s[j]))

\* s[i:] of Python with i the 1-based first kept position
From(s, i) == SubSeq(s, i, Len(s))

\* str.strip()
strip(s) ==
    LET keep == {i \in 1..Len(s) : ~IsWs(s[i])}
    IN  IF keep = {} THEN <<>>
        ELSE SubSeq(s, CHOOSE i \in keep : \A j \in keep : i <= j,
                       CHOOSE i \in keep : \A j \in keep : i >= j)

RECURSIVE Concat(_)
\* "".join(parts)
Concat(parts) == IF parts = <<>> THEN <<>> ELSE Head(parts) \o Concat(Tail(parts))

RECURSIVE Join(_, _)
\* sep.join(parts)
Join(parts, sep) ==
    IF parts = <<>> THEN <<>>
    ELSE IF Len(parts) = 1 THEN parts[1]
    ELSE parts[1] \o sep \o Join(Tail(parts), sep)

\* the backquote character U+0060, which a TLA+ string cannot hold
BQ == "bq"

FENCE == <<BQ, BQ, BQ>>
KW_SQL == <<"s", "q", "l">>
KW_QUERY_COLON == <<"q", "u", "e", "r", "y", ":">>
KW_THE == <<"t", "h", "e">>
KW_QUERY == <<"q", "u", "e", "r", "y">>
KW_STATEMENT == <<"s", "t", "a", "t", "e", "m", "e", "n", "t">>
KW_IS == <<"i", "s">>
KW_SELECT == <<"S", "E", "L", "E", "C", "T">>
KW_WITH == <<"W", "I", "T", "H">>

-----------------------------------------------------------------------------
(* extract_sql_query, data_utils.py:140-170 *)

\* re.sub(r"^```(?:sql)?\s*", "", text, flags=re.IGNORECASE)
sub_fence_open(text) ==
    IF MatchAt(text, 1, FENCE, TRUE)
    THEN LET a == IF MatchAt(text, 4, KW_SQL, TRUE) THEN 7 ELSE 4
         IN  From(text, SkipWs(text, a))
    ELSE text

\* where $ matches: at the end, and before a newline that ends the text
DollarEnds(text) ==
    {Len(text)} \cup
    (IF Len(text) >= 1 /\ text[Len(text)] = "\n" THEN {Len(text) - 1} ELSE {})

\* the pattern \s*```$ matches text[i..e]
FenceCloseMatch(text, i, e) ==
    LET j == SkipWs(text, i)
    IN  /\ MatchAt(text, j, FENCE, FALSE)
        /\ e = j + 2
        /\ e \in DollarEnds(text)

\* re.sub(r"\s*```$", "", text): the leftmost match is removed
sub_fence_close(text) ==
    LET starts == {i \in 1..Len(text) :
                      \E e \in DollarEnds(text) : FenceCloseMatch(text, i, e)}
    IN  IF starts = {} THEN text
        ELSE LET i == CHOOSE a \in starts : \A b \in starts : a <= b
                 e == SkipWs(text, i) + 2
             IN  SubSeq(text, 1, i - 1) \o From(text, e + 1)

\* re.sub(r"(?i)^sql\s*query:\s*", "", text)
sub_label_sql_query(text) ==
    IF MatchAt(text, 1, KW_SQL, TRUE)
    THEN LET a == SkipWs(text, 4)
         IN  IF MatchAt(text, a, KW_QUERY_COLON, TRUE)
             THEN From(text, SkipWs(text, a + 6))
             ELSE text
    ELSE text

\* re.sub(r"(?i)^the\s*sql\s*(query|statement)\s*(is)?:\s*", "", text)
sub_label_the_sql(text) ==
    IF MatchAt(text, 1, KW_THE, TRUE)
    THEN LET a == SkipWs(text, 4)
         IN  IF MatchAt(text, a, KW_SQL, TRUE)
             THEN LET b == SkipWs(text, a + 3)
                      c == IF MatchAt(text, b, KW_QUERY, TRUE) THEN b + 5
                           ELSE IF MatchAt(text, b, KW_STATEMENT, TRUE) THEN b + 9
                           ELSE 0
                  IN  IF c = 0 THEN text
                      ELSE LET d == SkipWs(text, c)
                               f == IF MatchAt(text, d, KW_IS, TRUE) THEN d + 2 ELSE d
                           IN  IF MatchAt(text, f, <<":">>, FALSE)
                               THEN From(text, SkipWs(text, f + 1))
                               ELSE text
             ELSE text
    ELSE text

\* the pattern (?i)(SELECT|WITH)\s matches at position i
KeywordMatch(text, i) ==
    \/ MatchAt(text, i, KW_SELECT, TRUE) /\ i + 6 <= Len(text) /\ IsWs(text[i + 6])
    \/ MatchAt(text, i, KW_WITH, TRUE) /\ i + 4 <= Len(text) /\ IsWs(text[i + 4])

\* a search that looks for SELECT in the whole text before it looks for WITH
search_keyword_select_first(text) ==
    LET sel == {i \in 1..Len(text) :
                   MatchAt(text, i, KW_SELECT, TRUE) /\ i + 6 <= Len(text)
                   /\ IsWs(text[i + 6])}
        hits == {i \in 1..Len(text) : KeywordMatch(text, i)}
    IN  IF sel # {} THEN CHOOSE a \in sel : \A b \in sel : a <= b
        ELSE IF hits = {} THEN 0
        ELSE CHOOSE a \in hits : \A b \in hits : a <= b

\* re.search(r"(?i)(SELECT|WITH)\s", text): match.start() + 1, or 0 for no match
search_keyword(text) ==
    LET hits == {i \in 1..Len(text) : KeywordMatch(text, i)}
    IN  IF hits = {} THEN 0
        ELSE CHOOSE a \in hits : \A b \in hits : a <= b

\* the text after the two fence substitutions and the two label substitutions
strip_fences_and_labels(r) ==
    sub_label_the_sql(sub_label_sql_query(sub_fence_close(sub_fence_open(strip(r)))))

extract_sql_query(r) ==
    IF r = <<>> THEN <<>>
    ELSE LET text == strip_fences_and_labels(r)
             m == search_keyword(text)
         IN  strip(IF m # 0 THEN From(text, m) ELSE text)

-----------------------------------------------------------------------------
(* OpenAIChatLLM._extract_sql, llm.py:96-119.                              *)
(* A completion is [choices |-> <<content, ...>>]: the message content of  *)
(* each choice, which is [kind |-> "none"], [kind |-> "str", text |-> t]   *)
(* or [kind |-> "parts", parts |-> <<part, ...>>]. A part is a record with *)
(* an optional type field and an optional text field.                      *)

\* the __cause__ of an exception raised without `from`
NoCause == [kind |-> "None"]

LLMError(msg, cause) == [kind |-> "LLMError", msg |-> msg, cause |-> cause]

\* getattr(part, "type", None)
part_type(part) == IF "type" \in DOMAIN part THEN part.type ELSE None

\* getattr(part, "text", "")
part_text(part) == IF "text" \in DOMAIN part THEN part.text ELSE <<>>

\* `not content`: None, the empty string or the empty list
content_falsy(content) ==
    \/ content.kind = "none"
    \/ content.kind = "str" /\ content.text = <<>>
    \/ content.kind = "parts" /\ content.parts = <<>>

\* a comprehension that keeps every part that has a text, whatever its type
text_parts_any_type(parts) ==
    LET keep == SelectSeq(parts, LAMBDA p : part_text(p) # <<>>)
    IN  [k \in 1..Len(keep) |-> part_text(keep[k])]

\* [getattr(part, "text", "") for part in content
\*  if getattr(part, "type", None) == "text" and getattr(part, "text", "")]
text_parts_of(parts) ==
    LET keep == SelectSeq(parts, LAMBDA p : part_type(p) = "text" /\ part_text(p) # <<>>)
    IN  [k \in 1..Len(keep) |-> part_text(keep[k])]

_extract_sql(c) ==
    IF c.choices = <<>>
    THEN LLMError("No choices returned from completion response.", NoCause)
    ELSE LET content == c.choices[1]
         IN  IF content_falsy(content)
             THEN LLMError("No content in completion response.", NoCause)
             ELSE IF content.kind = "str"
             THEN [kind |-> "ok", text |-> strip(content.text)]
             ELSE IF text_parts_of(content.parts) = <<>>
             THEN LLMError("Completion content did not contain text parts.", NoCause)
             ELSE [kind |-> "ok", text |-> strip(Concat(text_parts_of(content.parts)))]

-----------------------------------------------------------------------------
(* SpiderDataset.get_schema and _iter_tables, data_utils.py:94-123.        *)
(* A schema is [table_names_original |-> <<name, ...>>,                    *)
(* column_names_original |-> << <<table_idx, column_name>>, ... >>].       *)

\* table_to_columns.setdefault(table_idx, []).append(column_name)
setdefault_append(d, idx, name) ==
    [k \in (DOMAIN d) \cup {idx} |->
        IF k = idx THEN Append(IF idx \in DOMAIN d THEN d[idx] ELSE <<>>, name)
        ELSE d[k]]

RECURSIVE table_to_columns(_, _)
\* the loop of _iter_tables over the column pairs, from the dict d
table_to_columns(d, columns) ==
    IF columns = <<>> THEN d
    ELSE LET table_idx == columns[1][1]
             column_name == columns[1][2]
         IN  IF table_idx = -1
             THEN table_to_columns(d, Tail(columns))
             ELSE table_to_columns(setdefault_append(d, table_idx, column_name),
                                   Tail(columns))

\* an _iter_tables that looks the columns up under enumerate's index plus one
_iter_tables_off_by_one(schema) ==
    LET tables == schema.table_names_original
        d == table_to_columns([i \in 0..(Len(tables) - 1) |-> <<>>],
                              schema.column_names_original)
    IN  [k \in 1..Len(tables) |->
            <<tables[k], IF k \in DOMAIN d THEN d[k] ELSE <<>> >>]

\* the (table_name, column_names) pairs _iter_tables yields, in order
_iter_tables(schema) ==
    LET tables == schema.table_names_original
        d == table_to_columns([i \in 0..(Len(tables) - 1) |-> <<>>],
                              schema.column_names_original)
    IN  [k \in 1..Len(tables) |->
            <<tables[k], IF (k - 1) \in DOMAIN d THEN d[k - 1] ELSE <<>> >>]

TABLE_PREFIX == <<"T", "a", "b", "l", "e", ":", " ">>

\* f"Table: {table_name}({friendly_columns})"
table_line(pair) ==
    TABLE_PREFIX \o pair[1] \o <<"(">> \o Join(pair[2], <<",", " ">>) \o <<")">>

get_schema(schema_map, db) ==
    IF db \notin DOMAIN schema_map
    THEN [kind |-> "KeyError", db_id |-> db]
    ELSE LET pairs == _iter_tables(schema_map[db])
             lines == [k \in 1..Len(pairs) |-> table_line(pairs[k])]
         IN  [kind |-> "ok", text |-> Join(lines, <<"\n">>)]

-----------------------------------------------------------------------------
(* OpenAIChatLLM, llm.py:34-94                                             *)

ROUTER_CONFIGS ==
    [openrouter |-> [base_url |-> "https://openrouter.ai/api/v1",
                     api_key_env |-> "OPENROUTER_API_KEY"],
     deepseek |-> [base_url |-> "https://api.deepseek.com/v1",
                   api_key_env |-> "DEEPSEEK_API_KEY"]]

\* Python truthiness of an optional string
Falsy(v) == v \in {None, ""}

\* a or b
Or(a, b) == IF Falsy(a) THEN b ELSE a

\* os.getenv(name), with env the variables that are set and not empty
getenv(env, name) == IF name \in env THEN "secret" ELSE None

\* an __init__ that leaves the key to be checked by the first request
OpenAIChatLLM_init_lazy_key(router, api_key, env) ==
    IF router \notin DOMAIN ROUTER_CONFIGS
    THEN [kind |-> "ValueError", what |-> "router"]
    ELSE [kind |-> "client", router |-> router]

\* OpenAIChatLLM.__init__(router, api_key): the client, or the exception raised
OpenAIChatLLM_init(router, api_key, env) ==
    IF router \notin DOMAIN ROUTER_CONFIGS
    THEN [kind |-> "ValueError", what |-> "router"]
    ELSE LET resolved_api_key == Or(api_key, getenv(env, ROUTER_CONFIGS[router].api_key_env))
         IN  IF Falsy(resolved_api_key)
             THEN [kind |-> "EnvironmentError", what |-> ROUTER_CONFIGS[router].api_key_env]
             ELSE [kind |-> "client", router |-> router]

\* the outcome of one attempt: the LLMResult, or the LLMError raised
attempt_result(router, outcome) ==
    IF outcome.kind = "OpenAIError"
    THEN LLMError(<<router, "request failed">>, outcome)
    ELSE LET parsed == _extract_sql(outcome)
         IN  IF parsed.kind = "LLMError" THEN parsed
             ELSE [kind |-> "LLMResult", sql |-> parsed.text, raw |-> outcome]

\* the exponential backoff of the specification: base 1, doubling, capped at 20
backoff_wait(k) == IF 2 ^ (k - 1) < 20 THEN 2 ^ (k - 1) ELSE 20

RECURSIVE retry_from(_, _, _, _)
\* attempt k of a retrying generate, after the waits already made
retry_from(router, script, k, waits) ==
    LET r == attempt_result(router, script[k])
    IN  IF r.kind = "LLMResult" \/ k >= 3 \/ k >= Len(script)
        THEN [attempts |-> k, waits |-> waits, result |-> r]
        ELSE retry_from(router, script, k + 1, Append(waits, backoff_wait(k)))

\* a generate that retries every failure up to three attempts, with backoff
generate_with_retry(router, script) == retry_from(router, script, 1, <<>>)

\* a generate that raises LLMError without chaining the OpenAIError
generate_without_cause(router, script) ==
    LET r == attempt_result(router, script[1])
    IN  [attempts |-> 1, waits |-> <<>>,
         result |-> IF r.kind = "LLMError" THEN LLMError(r.msg, NoCause) ELSE r]

\* generate(prompt, model) against a backend that answers its successive
\* requests with script[1], script[2], ...: one request, no sleep
generate(router, script) ==
    [attempts |-> 1, waits |-> <<>>, result |-> attempt_result(router, script[1])]

-----------------------------------------------------------------------------
(* SpiderDataset.iter_examples, data_utils.py:81-89                        *)

\* seq[:n] of Python
SliceTo(seq, n) ==
    IF n >= 0 THEN SubSeq(seq, 1, IF n < Len(seq) THEN n ELSE Len(seq))
    ELSE SubSeq(seq, 1, Len(seq) + n)

\* limit is <<>> for None and <<n>> for the integer n
iter_examples(exs, limit) == IF limit = <<>> THEN exs ELSE SliceTo(exs, limit[1])

-----------------------------------------------------------------------------
(* Idle values: what the variables of one part hold while another part of  *)
(* the program is the one being exercised.                                 *)

NoError == [kind |-> "None"]
NoCall == [kind |-> "idle"]
NoFile == [kind |-> "absent"]

MainIdle ==
    /\ cfg = None /\ examples = <<>> /\ client = None /\ pos = 0 /\ call = NoCall
    /\ pred_rows = <<>> /\ error_log = <<>> /\ net_calls = 0 /\ fatal = NoError
    /\ predictions_file = NoFile

ExtractIdle == response = <<>> /\ sql1 = <<>> /\ sql2 = <<>>

ParseIdle == completion = None /\ parse_result = None

SchemaIdle == db_id = None /\ schema_result = None

-----------------------------------------------------------------------------
(* extract_sql_query applied to a model response, and again to its own     *)
(* output.                                                                 *)

\* pieces a model response is assembled from
Fragments ==
    { FENCE,
      <<"s", "q", "l">>,
      <<" ">>,
      <<"\n">>,
      <<"S", "Q", "L", " ", "Q", "u", "e", "r", "y", ":">>,
      <<"T", "h", "e", " ", "S", "Q", "L", " ", "q", "u", "e", "r", "y", " ", "i", "s", ":">>,
      <<"S", "e", "l", "e", "c", "t", " ">>,
      <<"W", "I", "T", "H", "\n">>,
      <<"w", "i", "t", "h">>,
      <<"x">> }

Responses ==
    {Concat(f) : f \in UNION {[1..n -> Fragments] : n \in 0..MaxFrags}}

InitExtract ==
    /\ pc = "extract"
    /\ response \in Responses
    /\ sql1 = <<>> /\ sql2 = <<>>
    /\ schemas = None
    /\ MainIdle /\ ParseIdle /\ SchemaIdle

ExtractOnce ==
    /\ pc = "extract"
    /\ sql1' = extract_sql_query(response)
    /\ pc' = "extracted"
    /\ UNCHANGED <<response, sql2, mainVars, parseVars, schemaVars>>

ExtractAgain ==
    /\ pc = "extracted"
    /\ sql2' = extract_sql_query(sql1)
    /\ pc' = "extracted_twice"
    /\ UNCHANGED <<response, sql1, mainVars, parseVars, schemaVars>>

NextExtract == ExtractOnce \/ ExtractAgain

SpecExtract == InitExtract /\ [][NextExtract]_vars

-----------------------------------------------------------------------------
(* _extract_sql applied to one completion.                                 *)

PartChoices ==
    { [type |-> "text", text |-> <<"a">>],
      [type |-> "text", text |-> <<" ", "b", " ">>],
      [type |-> "text", text |-> <<>>],
      [type |-> "image_url"],
      [type |-> "refusal", text |-> <<"r">>] }

StrChoices == { <<>>, <<" ">>, <<"a">>, <<" ", "a", "\n">> }

Contents ==
    {[kind |-> "none"]}
    \cup {[kind |-> "str", text |-> t] : t \in StrChoices}
    \cup {[kind |-> "parts", parts |-> ps] :
            ps \in UNION {[1..n -> PartChoices] : n \in 0..MaxParts}}

\* the content of a second choice, which the parser never reads
OtherContents == {[kind |-> "none"], [kind |-> "str", text |-> <<"z">>]}

Completions ==
    {[kind |-> "completion", choices |-> <<>>]}
    \cup {[kind |-> "completion", choices |-> <<c>>] : c \in Contents}
    \cup {[kind |-> "completion", choices |-> <<c, d>>] :
            c \in Contents, d \in OtherContents}

InitParse ==
    /\ pc = "parse"
    /\ completion \in Completions
    /\ parse_result = None
    /\ schemas = None
    /\ MainIdle /\ ExtractIdle /\ SchemaIdle

Parse ==
    /\ pc = "parse"
    /\ parse_result' = _extract_sql(completion)
    /\ pc' = "parsed"
    /\ UNCHANGED <<completion, mainVars, extractVars, schemaVars>>

NextParse == Parse

SpecParse == InitParse /\ [][NextParse]_vars

-----------------------------------------------------------------------------
(* get_schema applied to one db_id of a dataset with one schema.           *)

TableNames == { <<"a">>, <<"b">> }
ColumnNames == { <<"x">>, <<"y">> }
\* -1 is the pseudo column's index; MaxTables is past the last table
TableIdxs == (-1)..MaxTables

SchemaChoices ==
    [table_names_original : UNION {[1..n -> TableNames] : n \in 0..MaxTables},
     column_names_original :
        UNION {[1..n -> TableIdxs \X ColumnNames] : n \in 0..MaxCols}]

DbIds == {"db1", "ghost"}

InitSchema ==
    /\ pc = "get_schema"
    /\ \E sc \in SchemaChoices : schemas = [d \in {"db1"} |-> sc]
    /\ db_id \in DbIds
    /\ schema_result = None
    /\ MainIdle /\ ExtractIdle /\ ParseIdle

GetSchema ==
    /\ pc = "get_schema"
    /\ schema_result' = get_schema(schemas, db_id)
    /\ pc' = "got_schema"
    /\ UNCHANGED <<db_id, mainVars, extractVars, parseVars>>

NextSchema == GetSchema

SpecSchema == InitSchema /\ [][NextSchema]_vars

-----------------------------------------------------------------------------
(* main, app.py:61-135                                                     *)

Configs ==
    [model_arg : {None, "m"},
     default_model : {None, "m"},
     router_arg : {None, "deepseek"},
     default_router : {None, "bogus"},
     num_samples : {<<>>, <<0>>, <<1>>},
     env : {{}, {"OPENROUTER_API_KEY"}, {"DEEPSEEK_API_KEY"}}]

SampleSchema ==
    [table_names_original |-> << <<"a">> >>,
     column_names_original |-> << <<-1, <<"*">> >>, <<0, <<"x">> >> >>]

TransportError == [kind |-> "OpenAIError", name |-> "APIConnectionError"]
AuthError == [kind |-> "OpenAIError", name |-> "AuthenticationError"]

StrCompletion(t) ==
    [kind |-> "completion", choices |-> << [kind |-> "str", text |-> t] >>]

PlainAnswer == StrCompletion(<<"S", "e", "l", "e", "c", "t", " ", "x">>)
TwoLineAnswer == StrCompletion(<<"W", "I", "T", "H", "\n", "x">>)
BlankAnswer == StrCompletion(<<" ">>)
NoChoices == [kind |-> "completion", choices |-> <<>>]

\* what the backend may answer to the first request of a call
Outcomes == {TransportError, AuthError, NoChoices, PlainAnswer, TwoLineAnswer, BlankAnswer}

\* what it would answer to the requests after the first
LaterOutcomes == {TransportError, PlainAnswer}

Scripts ==
    {s \in [1..ScriptLen -> Outcomes] : \A k \in 2..ScriptLen : s[k] \in LaterOutcomes}

model_name == Or(cfg.model_arg, cfg.default_model)

router_name == Or(Or(cfg.router_arg, cfg.default_router), "openrouter")

\* the examples the for-loop iterates
selected == iter_examples(examples, cfg.num_samples)

Init ==
    /\ pc = "resolve_model"
    /\ cfg \in Configs
    /\ examples \in UNION {[1..n -> DbIds] : n \in 0..MaxExamples}
    /\ schemas = [d \in {"db1"} |-> SampleSchema]
    /\ client = None /\ pos = 0 /\ call = NoCall
    /\ pred_rows = <<>> /\ error_log = <<>> /\ net_calls = 0 /\ fatal = NoError
    /\ predictions_file = NoFile
    /\ ExtractIdle /\ ParseIdle /\ SchemaIdle

others == <<extractVars, parseVars, schemaVars>>

\* app.py:93-95
ResolveModel ==
    /\ pc = "resolve_model"
    /\ IF Falsy(model_name)
       THEN fatal' = [kind |-> "ValueError", what |-> "model"] /\ pc' = "fatal"
       ELSE fatal' = fatal /\ pc' = "resolve_router"
    /\ UNCHANGED <<schemas, cfg, examples, client, pos, call, pred_rows, error_log,
                   net_calls, predictions_file, others>>

\* app.py:97-101
ResolveRouter ==
    /\ pc = "resolve_router"
    /\ IF router_name \notin DOMAIN ROUTER_CONFIGS
       THEN fatal' = [kind |-> "ValueError", what |-> "router"] /\ pc' = "fatal"
       ELSE fatal' = fatal /\ pc' = "construct_client"
    /\ UNCHANGED <<schemas, cfg, examples, client, pos, call, pred_rows, error_log,
                   net_calls, predictions_file, others>>

\* app.py:109
ConstructClient ==
    /\ pc = "construct_client"
    /\ LET c == OpenAIChatLLM_init(router_name, None, cfg.env)
       IN  IF c.kind = "client"
           THEN client' = c.router /\ fatal' = fatal /\ pc' = "loop"
           ELSE client' = client /\ fatal' = c /\ pc' = "fatal"
    /\ UNCHANGED <<schemas, cfg, examples, pos, call, pred_rows, error_log,
                   net_calls, predictions_file, others>>

\* a loop whose try block also holds the schema lookup
NextExample_lookup_in_try ==
    /\ pc = "loop"
    /\ pos < Len(selected)
    /\ pos' = pos + 1
    /\ LET sc == get_schema(schemas, selected[pos + 1])
       IN  IF sc.kind = "KeyError"
           THEN /\ pred_rows' = Append(pred_rows, <<>>)
                /\ error_log' = Append(error_log, pos + 1)
                /\ UNCHANGED <<fatal, pc, call>>
           ELSE /\ call' = [kind |-> "pending", db_id |-> selected[pos + 1]]
                /\ pc' = "generate"
                /\ UNCHANGED <<fatal, pred_rows, error_log>>
    /\ UNCHANGED <<schemas, cfg, examples, client, net_calls, predictions_file, others>>

\* app.py:115-117: the next example, its schema and its prompt
NextExample ==
    /\ pc = "loop"
    /\ pos < Len(selected)
    /\ pos' = pos + 1
    /\ LET sc == get_schema(schemas, selected[pos + 1])
       IN  IF sc.kind = "KeyError"
           THEN fatal' = sc /\ pc' = "fatal" /\ call' = call
           ELSE /\ fatal' = fatal
                /\ call' = [kind |-> "pending", db_id |-> selected[pos + 1]]
                /\ pc' = "generate"
    /\ UNCHANGED <<schemas, cfg, examples, client, pred_rows, error_log,
                   net_calls, predictions_file, others>>

\* app.py:121: client.generate(prompt, model), llm.py:73-94
Generate ==
    /\ pc = "generate"
    /\ \E script \in Scripts :
          LET g == generate(client, script)
          IN  /\ call' = [kind |-> "returned", db_id |-> call.db_id, script |-> script,
                          attempts |-> g.attempts, waits |-> g.waits,
                          result |-> g.result]
              /\ net_calls' = net_calls + g.attempts
    /\ pc' = "returned"
    /\ UNCHANGED <<schemas, cfg, examples, client, pos, pred_rows, error_log,
                   fatal, predictions_file, others>>

\* a loop body without the except clause: the LLMError leaves main
HandleResult_no_except ==
    /\ pc = "returned"
    /\ IF call.result.kind = "LLMResult"
       THEN /\ pred_rows' = Append(pred_rows, extract_sql_query(call.result.sql))
            /\ pc' = "loop"
            /\ UNCHANGED fatal
       ELSE /\ fatal' = call.result
            /\ pc' = "fatal"
            /\ UNCHANGED pred_rows
    /\ call' = NoCall
    /\ UNCHANGED <<schemas, cfg, examples, client, pos, net_calls, error_log,
                   predictions_file, others>>

\* app.py:122-129: the rest of the try block, the except clause and the append
HandleResult ==
    /\ pc = "returned"
    /\ IF call.result.kind = "LLMResult"
       THEN /\ pred_rows' = Append(pred_rows, extract_sql_query(call.result.sql))
            /\ error_log' = error_log
       ELSE /\ pred_rows' = Append(pred_rows, <<>>)
            /\ error_log' = Append(error_log, pos)
    /\ call' = NoCall
    /\ pc' = "loop"
    /\ UNCHANGED <<schemas, cfg, examples, client, pos, net_calls, fatal,
                   predictions_file, others>>

\* predictions_path.write_text("\n".join(pred_rows) + "\n")
written_text(rows) == Join(rows, <<"\n">>) \o <<"\n">>

\* app.py:131-133, once the iterator is exhausted
WritePredictions ==
    /\ pc = "loop"
    /\ pos >= Len(selected)
    /\ predictions_file' = [kind |-> "file", content |-> written_text(pred_rows)]
    /\ pc' = "done"
    /\ UNCHANGED <<schemas, cfg, examples, client, pos, call, pred_rows, error_log,
                   net_calls, fatal, others>>

Next ==
    \/ ResolveModel
    \/ ResolveRouter
    \/ ConstructClient
    \/ NextExample
    \/ Generate
    \/ HandleResult
    \/ WritePredictions

Spec == Init /\ [][Next]_vars

-----------------------------------------------------------------------------
(* Vocabulary of the properties.                                           *)

LowerText(t) == [k \in 1..Len(t) |-> Lower(t[k])]

\* out is t without its leading and trailing whitespace
IsTrimOf(out, t) ==
    /\ out # <<>> => (out[1] \notin WS /\ out[Len(out)] \notin WS)
    /\ \E a \in 0..Len(t) :
          /\ a + Len(out) <= Len(t)
          /\ SubSeq(t, a + 1, a + Len(out)) = out
          /\ \A k \in (1..a) \cup ((a + Len(out) + 1)..Len(t)) : t[k] \in WS

RECURSIVE SplitLines(_)
\* the pieces of t between its newline characters
SplitLines(t) ==
    LET nl == {i \in 1..Len(t) : t[i] = "\n"}
    IN  IF nl = {} THEN <<t>>
        ELSE LET i == CHOOSE a \in nl : \A b \in nl : a <= b
             IN  <<SubSeq(t, 1, i - 1)>> \o SplitLines(SubSeq(t, i + 1, Len(t)))

\* the lines of a file in which every line ends with a newline character
FileLines(t) ==
    IF t = <<>> THEN <<>>
    ELSE IF t[Len(t)] = "\n" THEN SplitLines(SubSeq(t, 1, Len(t) - 1))
    ELSE SplitLines(t)

\* an attempt that fails transiently: a transport error or an empty response
TransientFailure(o) == o = TransportError \/ o = NoChoices

\* an attempt that fails for good: the credentials are refused
NonTransientFailure(o) == o = AuthError

Failure(o) == attempt_result("x", o).kind = "LLMError"

FailsTwiceThenSucceeds(script) ==
    /\ TransientFailure(script[1])
    /\ TransientFailure(script[2])
    /\ ~Failure(script[3])

-----------------------------------------------------------------------------
(* C1 *)

-----------------------------------------------------------------------------
(* C2 *)

\* C2: when generate fails for an example, the failure is caught in the loop
\* body: the prediction appended for that example is the empty string, the
\* failure is logged for it, main goes back to the loop with the remaining
\* examples untouched, and no LLMError ever ends the run.
C2_FailureIsCaughtPerExample ==
    /\ [](fatal.kind # "LLMError")
    /\ [][(pc = "returned" /\ call.result.kind = "LLMError") =>
            /\ pc' = "loop"
            /\ pred_rows' = Append(pred_rows, <<>>)
            /\ error_log' = Append(error_log, pos)
            /\ pos' = pos
            /\ fatal' = fatal]_vars
    /\ [][(pc = "loop" /\ pos < Len(selected)) => pos' = pos + 1]_vars

C2_Witness ==
    /\ Len(pred_rows) = 2
    /\ error_log = <<1>>
    /\ pred_rows[1] = <<>>
    /\ pred_rows[2] # <<>>

-----------------------------------------------------------------------------
(* C3 *)

\* C3 as stated: a completed run over N selected examples has written a file;
\* when N > 0 the file has exactly N newline-delimited lines and line i is
\* the prediction of example i, whatever text the model returned.
C3_OneLinePerExample ==
    pc = "done" =>
        /\ predictions_file.kind = "file"
        /\ Len(pred_rows) = Len(selected)
        /\ Len(selected) > 0 =>
              /\ Len(FileLines(predictions_file.content)) = Len(selected)
              /\ FileLines(predictions_file.content) = pred_rows

-----------------------------------------------------------------------------
(* C5 *)

\* the backend main selects: the first non-empty of --router, default_router
\* and "openrouter"
SelectedBackend ==
    IF cfg.router_arg \notin {None, ""} THEN cfg.router_arg
    ELSE IF cfg.default_router \notin {None, ""} THEN cfg.default_router
    ELSE "openrouter"

NoModelGiven == cfg.model_arg \in {None, ""} /\ cfg.default_model \in {None, ""}

UnknownBackend == SelectedBackend \notin {"openrouter", "deepseek"}

NoApiKey ==
    \/ SelectedBackend = "openrouter" /\ "OPENROUTER_API_KEY" \notin cfg.env
    \/ SelectedBackend = "deepseek" /\ "DEEPSEEK_API_KEY" \notin cfg.env

ConfigInvalid == NoModelGiven \/ UnknownBackend \/ NoApiKey

ConfigError == pc = "fatal" /\ fatal.kind \in {"ValueError", "EnvironmentError"}

\* C5: a run whose configuration has no model, an unknown backend or no API
\* key never makes a network call and never reaches the loop; when the
\* configuration error is raised no network call, no prediction and no
\* per-example error has happened, nothing was written, and the run is over.
C5_ConfigErrorBeforeNetwork ==
    /\ ConfigInvalid =>
          /\ net_calls = 0
          /\ pred_rows = <<>>
          /\ error_log = <<>>
          /\ pc \in {"resolve_model", "resolve_router", "construct_client", "fatal"}
    /\ ConfigError =>
          /\ ConfigInvalid
          /\ net_calls = 0 /\ pred_rows = <<>> /\ error_log = <<>>
          /\ predictions_file = NoFile
          /\ ~ENABLED Next

C5_Witness ==
    /\ ConfigError
    /\ fatal.kind = "EnvironmentError"
    /\ Len(selected) > 0

-----------------------------------------------------------------------------
(* C6 *)

-----------------------------------------------------------------------------
(* C7 *)

\* C7: when the loop reaches an example whose db_id has no schema, the step
\* ends main with KeyError: no prediction is appended for it, nothing is
\* logged as a per-example failure, and from then on no example is processed
\* and no file is written.
C7_UnknownDbAbortsRun ==
    /\ [][(pc = "loop" /\ pos < Len(selected)
                       /\ selected[pos + 1] \notin DOMAIN schemas) =>
            /\ pc' = "fatal"
            /\ fatal'.kind = "KeyError"
            /\ pred_rows' = pred_rows
            /\ error_log' = error_log]_vars
    /\ [][pc = "fatal" =>
            /\ pc' = "fatal"
            /\ pos' = pos
            /\ pred_rows' = pred_rows
            /\ net_calls' = net_calls
            /\ predictions_file' = NoFile]_vars

C7_Witness ==
    /\ pc = "fatal"
    /\ fatal.kind = "KeyError"
    /\ pos < Len(selected)
    /\ Len(pred_rows) = pos - 1
    /\ predictions_file = NoFile

-----------------------------------------------------------------------------
(* C4 *)

\* C4 as stated: extract_sql_query applied to its own output returns that
\* output.
C4_ExtractIdempotent == pc = "extracted_twice" => sql2 = sql1

-----------------------------------------------------------------------------
(* C8 *)

\* SELECT or WITH, in any letter case, followed by whitespace, at position i
KeywordAt(t, i) ==
    \/ /\ i + 6 <= Len(t)
       /\ LowerText(SubSeq(t, i, i + 5)) = <<"s", "e", "l", "e", "c", "t">>
       /\ t[i + 6] \in WS
    \/ /\ i + 4 <= Len(t)
       /\ LowerText(SubSeq(t, i, i + 3)) = <<"w", "i", "t", "h">>
       /\ t[i + 4] \in WS

StartsWithKeyword(t) ==
    \/ Len(t) >= 6 /\ LowerText(SubSeq(t, 1, 6)) = <<"s", "e", "l", "e", "c", "t">>
    \/ Len(t) >= 4 /\ LowerText(SubSeq(t, 1, 4)) = <<"w", "i", "t", "h">>

\* C8: extract_sql_query returns a text for every response, the empty text
\* for the empty response, and when the text left after trimming, fence
\* stripping and label stripping holds SELECT or WITH followed by whitespace,
\* the output is that text from the first such occurrence on (trimmed): it
\* begins with the keyword and nothing before the occurrence is kept.
C8_ExtractStartsAtFirstKeyword ==
    pc \in {"extracted", "extracted_twice"} =>
        /\ response = <<>> => sql1 = <<>>
        /\ LET t == strip_fences_and_labels(response)
               occ == {i \in 1..Len(t) : KeywordAt(t, i)}
           IN  occ # {} =>
                  \E k \in occ :
                     /\ \A j \in occ : k <= j
                     /\ IsTrimOf(sql1, SubSeq(t, k, Len(t)))
                     /\ StartsWithKeyword(sql1)

C8_Witness ==
    /\ pc = "extracted"
    /\ LET t == strip_fences_and_labels(response)
           occ == {i \in 1..Len(t) : KeywordAt(t, i)}
       IN  /\ occ # {}
           /\ 1 \notin occ
           /\ Len(sql1) < Len(t)
    /\ StartsWithKeyword(sql1)

-----------------------------------------------------------------------------
(* C9 *)

\* the parts whose type is "text"
TextTyped(parts) == SelectSeq(parts, LAMBDA p : "type" \in DOMAIN p /\ p.type = "text")

\* the texts of the text-typed parts, concatenated in order
TextOfTextTyped(parts) ==
    LET tt == TextTyped(parts)
    IN  Concat([k \in 1..Len(tt) |-> IF "text" \in DOMAIN tt[k] THEN tt[k].text ELSE <<>>])

ContentMissingOrEmpty(c) ==
    \/ c.choices = <<>>
    \/ c.choices[1].kind = "none"
    \/ c.choices[1].kind = "str" /\ c.choices[1].text = <<>>
    \/ c.choices[1].kind = "parts" /\ c.choices[1].parts = <<>>

\* C9 as stated: no choice, or a first choice without content, is an
\* LLMError; otherwise the text returned is the content itself when it is a
\* string, and the concatenation of exactly the text-typed parts when it is
\* a list, a list without text-typed parts being an LLMError.
C9_ParsedTextIsContent ==
    pc = "parsed" =>
        IF ContentMissingOrEmpty(completion)
        THEN parse_result.kind = "LLMError"
        ELSE IF completion.choices[1].kind = "str"
        THEN parse_result.kind = "ok" /\ parse_result.text = completion.choices[1].text
        ELSE IF TextTyped(completion.choices[1].parts) = <<>>
        THEN parse_result.kind = "LLMError"
        ELSE /\ parse_result.kind = "ok"
             /\ parse_result.text = TextOfTextTyped(completion.choices[1].parts)

\* C9 as amended: no choice, or a first choice without content, is an
\* LLMError; otherwise the text returned is the content trimmed of leading
\* and trailing whitespace when it is a string, and the trimmed in-order
\* concatenation of exactly the text-typed parts when it is a list, a list
\* whose text-typed parts hold no text at all being an LLMError.
C9_ParsedTextIsTrimmedContent ==
    pc = "parsed" =>
        IF ContentMissingOrEmpty(completion)
        THEN parse_result.kind = "LLMError"
        ELSE IF completion.choices[1].kind = "str"
        THEN /\ parse_result.kind = "ok"
             /\ IsTrimOf(parse_result.text, completion.choices[1].text)
        ELSE IF TextOfTextTyped(completion.choices[1].parts) = <<>>
        THEN parse_result.kind = "LLMError"
        ELSE /\ parse_result.kind = "ok"
             /\ IsTrimOf(parse_result.text,
                         TextOfTextTyped(completion.choices[1].parts))

C9_Witness ==
    /\ pc = "parsed"
    /\ completion.choices # <<>>
    /\ completion.choices[1].kind = "parts"
    /\ Len(completion.choices[1].parts) = 2
    /\ \E k \in 1..2 : completion.choices[1].parts[k] = [type |-> "refusal", text |-> <<"r">>]
    /\ parse_result.kind = "ok"
    /\ parse_result.text = <<"b">>

-----------------------------------------------------------------------------
(* C10 *)

\* the names of the columns declared for table index i, in declaration order
ColumnsOfTable(sc, i) ==
    LET own == SelectSeq(sc.column_names_original, LAMBDA c : c[1] = i)
    IN  [k \in 1..Len(own) |-> own[k][2]]

ExpectedLine(sc, k) ==
    <<"T", "a", "b", "l", "e", ":", " ">> \o sc.table_names_original[k] \o <<"(">>
        \o Join(ColumnsOfTable(sc, k - 1), <<",", " ">>) \o <<")">>

\* C10: for a known db_id the formatted schema has one line per table, in
\* table order, line k being 'Table: <name>(<cols>)' with exactly the columns
\* whose table index is k's, in declaration order, joined by ', '; pairs with
\* index -1 appear in no line and a table without columns still has its line.
C10_OneLinePerTable ==
    (pc = "got_schema" /\ db_id \in DOMAIN schemas) =>
        LET sc == schemas[db_id]
            n == Len(sc.table_names_original)
        IN  /\ schema_result.kind = "ok"
            /\ IF n = 0 THEN schema_result.text = <<>>
               ELSE /\ Len(SplitLines(schema_result.text)) = n
                    /\ \A k \in 1..n :
                          SplitLines(schema_result.text)[k] = ExpectedLine(sc, k)

C10_Witness ==
    /\ pc = "got_schema"
    /\ db_id \in DOMAIN schemas
    /\ LET sc == schemas[db_id]
       IN  /\ Len(sc.table_names_original) = 2
           /\ \E c \in 1..Len(sc.column_names_original) :
                 sc.column_names_original[c][1] = -1
           /\ ColumnsOfTable(sc, 0) = <<>>
           /\ ColumnsOfTable(sc, 1) # <<>>
    /\ schema_result.kind = "ok"

====
